---- MODULE Spec2Model ----
(***************************************************************************)
(* Trivia API (backend/flaskr/__init__.py): the question store, the        *)
(* pagination helper and the request handlers for listing, deleting,       *)
(* creating and searching questions, listing by category and quiz play.    *)
(*                                                                         *)
(* JSON values of a request body are tagged records: JNull, JStr(s) with s *)
(* a sequence of one-character strings, JInt(n).  A stored question row is *)
(* a record [id, question, answer, category, difficulty].                  *)
(***************************************************************************)
EXTENDS Integers, Sequences, FiniteSets, TLC

VARIABLES questions, nextId, creates, req, resp

vars == <<questions, nextId, creates, req, resp>>

(* ------------------------------ bounds --------------------------------- *)
\* largest number of rows the database holds before the first request
MaxSeed == 12
\* POST /questions inserts per run (counted by creates)
MaxCreates == 2
\* successful deletes per run
MaxDeletes == 1
\* largest ?page= value requested
MaxPage == 2
\* rows in the store of a quiz session
MaxQuizSeed == 4

(* --------------------------- program constants ------------------------- *)
QUESTIONS_PER_PAGE == 10

(* ------------------------------ JSON values ---------------------------- *)
JNull == [t |-> "null"]
JStr(s) == [t |-> "str", v |-> s]
JInt(n) == [t |-> "int", v |-> n]

\* a request without a JSON body, and one whose body is the object f
NoBody == [json |-> FALSE]
Body(f) == [json |-> TRUE, fields |-> f]

\* dict.get(key, None)
get(data, key) == IF key \in DOMAIN data.fields THEN data.fields[key] ELSE JNull

\* Python truthiness of a JSON value (None, "" and 0 are falsy)
truthy(j) ==
  CASE j.t = "null" -> FALSE
    [] j.t = "str" -> j.v # <<>>
    [] j.t = "int" -> j.v # 0

Min(a, b) == IF a < b THEN a ELSE b
Max(a, b) == IF a > b THEN a ELSE b

(* ------------------------------ the store ------------------------------ *)
\* rows present before the first request: ids 1..n, as n inserts leave them
SeedQuestion(i) ==
  [id |-> i,
   question |-> IF i = 5 THEN <<"b">>
                ELSE IF i % 2 = 1 THEN <<"a", "B">> ELSE <<"b", "A", "b">>,
   answer |-> IF i = 5 THEN <<"a">> ELSE <<"c">>,
   category |-> IF i % 6 = 0 THEN 2 ELSE 1,
   difficulty |-> (i % 3) + 1]

Seed(n) == {SeedQuestion(i) : i \in 1..n}

\* the Category table (no handler of the claims changes it)
categories == {[id |-> 1, type |-> "Science"], [id |-> 2, type |-> "Art"],
               [id |-> 3, type |-> "History"]}

cat_dict == [c \in {cat.id : cat \in categories} |->
               (CHOOSE cat \in categories : cat.id = c).type]

Ids(S) == {q.id : q \in S}

\* Question.format()
format(q) ==
  [id |-> q.id, question |-> q.question, answer |-> q.answer,
   category |-> q.category, difficulty |-> q.difficulty]

\* Question.query.order_by(Question.id).all()
RECURSIVE order_by_id(_)
order_by_id(S) ==
  IF S = {} THEN <<>>
  ELSE LET m == CHOOSE q \in S : \A r \in S : q.id <= r.id
       IN <<m>> \o order_by_id(S \ {m})

Reverse(s) == [i \in 1..Len(s) |-> s[Len(s) + 1 - i]]

\* Question.query.filter(...).all() without order_by: the row order is the
\* storage's choice; ord picks one of the orders the storage may answer in
Orders == {"asc", "desc"}
all_unordered(S, ord) ==
  IF ord = "asc" THEN order_by_id(S) ELSE Reverse(order_by_id(S))

(* ------------------------------ pagination ----------------------------- *)
\* ?page= as the request carries it
NoArg == [t |-> "absent"]
BadArg == [t |-> "str", v |-> <<"x">>]

\* request.args.get('page', 1, type=int)
page_arg(arg) == IF arg.t = "int" THEN arg.v ELSE 1

\* Python's seq[start:end] for integers start, end (0-based, negative
\* indices count from the end, both clamped to the length)
slice(s, start, end) ==
  LET n == Len(s)
      lo == IF start < 0 THEN Max(n + start, 0) ELSE Min(start, n)
      hi == IF end < 0 THEN Max(n + end, 0) ELSE Min(end, n)
  IN IF lo >= hi THEN <<>> ELSE [i \in 1..(hi - lo) |-> s[lo + i]]

\* paginate_questions with the window starting one page late
paginate_questions_late(selection, page) ==
  LET start == page * QUESTIONS_PER_PAGE
      end == start + QUESTIONS_PER_PAGE
      formatted == [i \in 1..Len(selection) |-> format(selection[i])]
  IN slice(formatted, start, end)

\* paginate_questions(selection, request): page is 1 when no request is given
paginate_questions(selection, page) ==
  LET start == (page - 1) * QUESTIONS_PER_PAGE
      end == start + QUESTIONS_PER_PAGE
      formatted == [i \in 1..Len(selection) |-> format(selection[i])]
  IN slice(formatted, start, end)

(* ---------------------------- error handlers --------------------------- *)
bad_request == [status |-> 400, success |-> FALSE, error |-> 400,
                message |-> "Bad Request"]
not_found == [status |-> 404, success |-> FALSE, error |-> 404,
              message |-> "Not Found"]
uproccessable == [status |-> 422, success |-> FALSE, error |-> 422,
                  message |-> "Unproccessable"]
internal_server_error == [status |-> 500, success |-> FALSE, error |-> 500,
                          message |-> "Internal Server Error"]

(* ------------------------------- handlers ------------------------------ *)
\* get_questions without the abort on an empty page
get_questions_no_abort(arg) ==
  LET all == order_by_id(questions)
      formatted_questions == paginate_questions(all, page_arg(arg))
  IN /\ req' = [op |-> "get_questions", page |-> arg]
     /\ resp' = [status |-> 200, success |-> TRUE,
                 questions |-> formatted_questions,
                 total_questions |-> Len(all),
                 current_category |-> JNull,
                 categories |-> cat_dict]
     /\ UNCHANGED <<questions, nextId, creates>>

\* GET /questions?page=arg
get_questions(arg) ==
  LET all == order_by_id(questions)
      formatted_questions == paginate_questions(all, page_arg(arg))
  IN /\ req' = [op |-> "get_questions", page |-> arg]
     /\ resp' = IF Len(formatted_questions) = 0 THEN not_found
                ELSE [status |-> 200, success |-> TRUE,
                      questions |-> formatted_questions,
                      total_questions |-> Len(all),
                      current_category |-> JNull,
                      categories |-> cat_dict]
     /\ UNCHANGED <<questions, nextId, creates>>

\* Question.delete(): the row leaves the table
delete(question) == questions' = questions \ {question}

\* Question.insert(): the storage assigns the next id of its sequence, which
\* never hands out an id twice, and the row joins the table
insert(question) ==
  /\ questions' = questions \cup {[question EXCEPT !.id = nextId]}
  /\ nextId' = nextId + 1

\* delete_question without the check that the question exists
delete_question_unchecked(question_id) ==
  LET found == {q \in questions : q.id = question_id}
  IN /\ req' = [op |-> "delete_question", question_id |-> question_id]
     /\ questions' = questions \ found
     /\ resp' = [status |-> 200, success |-> TRUE, deleted |-> question_id]
     /\ UNCHANGED <<nextId, creates>>

\* DELETE /questions/<question_id>
delete_question(question_id) ==
  LET found == {q \in questions : q.id = question_id}
  IN /\ req' = [op |-> "delete_question", question_id |-> question_id]
     /\ IF found = {}
        THEN \* abort(404) is raised inside the try: the bare except answers 422
             /\ resp' = uproccessable
             /\ UNCHANGED <<questions, nextId, creates>>
        ELSE /\ delete(CHOOSE q \in found : TRUE)
             /\ resp' = [status |-> 200, success |-> TRUE,
                         deleted |-> question_id]
             /\ UNCHANGED <<nextId, creates>>

\* what an unhandled AttributeError on data.get (data is None) or, on a newer
\* framework, get_json()'s own abort answers outside any try
NoBodyOutcomes == {internal_server_error, [status |-> 415, success |-> FALSE]}

\* new_question without the check of difficulty (a missing one is stored as 0)
new_question_no_difficulty(data) ==
  /\ req' = [op |-> "new_question", data |-> data]
  /\ IF ~data.json
     THEN /\ resp' \in NoBodyOutcomes
          /\ UNCHANGED <<questions, nextId, creates>>
     ELSE LET new_q == get(data, "question")
              new_answer == get(data, "answer")
              new_category == get(data, "category")
              new_difficulty == get(data, "difficulty")
          IN IF new_q = JNull \/ new_answer = JNull \/ new_category = JNull
             THEN /\ resp' = bad_request
                  /\ UNCHANGED <<questions, nextId, creates>>
             ELSE /\ insert([id |-> 0, question |-> new_q.v,
                             answer |-> new_answer.v,
                             category |-> new_category.v,
                             difficulty |-> IF new_difficulty = JNull THEN 0
                                            ELSE new_difficulty.v])
                  /\ creates' = creates + 1
                  /\ resp' = [status |-> 201, success |-> TRUE,
                              created |-> nextId,
                              message |-> "Question Created!"]

\* new_question answering the number of stored questions as the created id
new_question_count_as_id(data) ==
  /\ req' = [op |-> "new_question", data |-> data]
  /\ IF ~data.json
     THEN /\ resp' \in NoBodyOutcomes
          /\ UNCHANGED <<questions, nextId, creates>>
     ELSE LET new_q == get(data, "question")
              new_answer == get(data, "answer")
              new_category == get(data, "category")
              new_difficulty == get(data, "difficulty")
          IN IF \/ new_q = JNull \/ new_answer = JNull
                \/ new_category = JNull \/ new_difficulty = JNull
             THEN /\ resp' = bad_request
                  /\ UNCHANGED <<questions, nextId, creates>>
             ELSE /\ insert([id |-> 0, question |-> new_q.v,
                             answer |-> new_answer.v,
                             category |-> new_category.v,
                             difficulty |-> new_difficulty.v])
                  /\ creates' = creates + 1
                  /\ resp' = [status |-> 201, success |-> TRUE,
                              created |-> Cardinality(questions) + 1,
                              message |-> "Question Created!"]

\* POST /questions
new_question(data) ==
  /\ req' = [op |-> "new_question", data |-> data]
  /\ IF ~data.json
     THEN /\ resp' \in NoBodyOutcomes
          /\ UNCHANGED <<questions, nextId, creates>>
     ELSE LET new_q == get(data, "question")
              new_answer == get(data, "answer")
              new_category == get(data, "category")
              new_difficulty == get(data, "difficulty")
          IN IF \/ new_q = JNull \/ new_answer = JNull
                \/ new_category = JNull \/ new_difficulty = JNull
             THEN /\ resp' = bad_request
                  /\ UNCHANGED <<questions, nextId, creates>>
             ELSE /\ insert([id |-> 0, question |-> new_q.v,
                             answer |-> new_answer.v,
                             category |-> new_category.v,
                             difficulty |-> new_difficulty.v])
                  /\ creates' = creates + 1
                  /\ resp' = [status |-> 201, success |-> TRUE,
                              created |-> nextId,
                              message |-> "Question Created!"]

\* lower-casing of one character
lower(c) ==
  CASE c = "A" -> "a" [] c = "B" -> "b" [] c = "C" -> "c" [] OTHER -> c

\* SQL LIKE of text against pattern, case-insensitively (ILIKE): % matches
\* any run of characters, _ any single character
RECURSIVE ilike(_, _)
ilike(text, pattern) ==
  IF pattern = <<>> THEN text = <<>>
  ELSE IF Head(pattern) = "%"
       THEN \/ ilike(text, Tail(pattern))
            \/ text # <<>> /\ ilike(Tail(text), pattern)
  ELSE IF text = <<>> THEN FALSE
  ELSE IF Head(pattern) = "_" THEN ilike(Tail(text), Tail(pattern))
  ELSE /\ lower(Head(pattern)) = lower(Head(text))
       /\ ilike(Tail(text), Tail(pattern))

\* POST /questions/search
questions_search(data, ord) ==
  /\ req' = [op |-> "questions_search", data |-> data]
  /\ UNCHANGED <<questions, nextId, creates>>
  /\ IF ~data.json
     THEN \* data.get on None (or get_json's abort) raises inside the try
          resp' = uproccessable
     ELSE LET search_term == get(data, "searchTerm")
          IN IF truthy(search_term)
             THEN LET found == all_unordered(
                                 {q \in questions :
                                    ilike(q.question,
                                          <<"%">> \o search_term.v \o <<"%">>)},
                                 ord)
                      formatted_questions == paginate_questions(found, 1)
                  IN resp' = [status |-> 200, success |-> TRUE,
                              questions |-> formatted_questions,
                              total_questions |-> Len(found)]
             ELSE \* the view falls off its end and returns None, which the
                  \* framework turns into the 500 answer
                  resp' = internal_server_error

\* get_questions_by_category with the abort(404) outside the try
get_questions_by_category_uncaught(category_id, arg) ==
  LET found == order_by_id({q \in questions : q.category = category_id})
      formatted_questions == paginate_questions(found, page_arg(arg))
  IN /\ req' = [op |-> "get_questions_by_category",
                category_id |-> category_id, page |-> arg]
     /\ UNCHANGED <<questions, nextId, creates>>
     /\ resp' = IF Len(formatted_questions) = 0
                THEN not_found
                ELSE [status |-> 200, success |-> TRUE,
                      questions |-> formatted_questions,
                      total_questions |-> Len(found),
                      current_category |-> category_id,
                      categories |-> cat_dict]

\* GET /categories/<category_id>/questions?page=arg
get_questions_by_category(category_id, arg) ==
  LET found == order_by_id({q \in questions : q.category = category_id})
      formatted_questions == paginate_questions(found, page_arg(arg))
  IN /\ req' = [op |-> "get_questions_by_category",
                category_id |-> category_id, page |-> arg]
     /\ UNCHANGED <<questions, nextId, creates>>
     /\ resp' = IF Len(formatted_questions) = 0
                THEN \* abort(404) inside the try is caught and becomes 422
                     uproccessable
                ELSE [status |-> 200, success |-> TRUE,
                      questions |-> formatted_questions,
                      total_questions |-> Len(found),
                      current_category |-> category_id,
                      categories |-> cat_dict]

SeqToSet(s) == {s[i] : i \in 1..Len(s)}

\* get_question_for_quiz without the previous questions left out of a
\* category's questions
get_question_for_quiz_any_previous(data, ord) ==
  /\ req' = [op |-> "get_question_for_quiz", data |-> data]
  /\ UNCHANGED <<questions, nextId, creates>>
  /\ IF ~data.json
     THEN resp' = uproccessable
     ELSE LET previous_questions ==
                IF "previous_questions" \in DOMAIN data.fields
                THEN data.fields["previous_questions"].v ELSE <<>>
              quiz_category == get(data, "quiz_category")
          IN IF quiz_category = JNull
             THEN \* None['id'] raises TypeError inside the try
                  resp' = uproccessable
             ELSE LET found ==
                        all_unordered(
                          IF quiz_category.id = 0
                          THEN {q \in questions :
                                  q.id \notin SeqToSet(previous_questions)}
                          ELSE {q \in questions :
                                  q.category = quiz_category.id},
                          ord)
                      available_questions == Len(found)
                  IN IF available_questions > 0
                     THEN \E k \in 0..(available_questions - 1) :
                            resp' = [status |-> 200, success |-> TRUE,
                                     question |-> format(found[k + 1])]
                     ELSE resp' = [status |-> 200, success |-> TRUE,
                                   question |-> JNull]

\* get_question_for_quiz that serves no question once a single one is left
get_question_for_quiz_keeps_last(data, ord) ==
  /\ req' = [op |-> "get_question_for_quiz", data |-> data]
  /\ UNCHANGED <<questions, nextId, creates>>
  /\ IF ~data.json
     THEN resp' = uproccessable
     ELSE LET previous_questions ==
                IF "previous_questions" \in DOMAIN data.fields
                THEN data.fields["previous_questions"].v ELSE <<>>
              quiz_category == get(data, "quiz_category")
          IN IF quiz_category = JNull
             THEN \* None['id'] raises TypeError inside the try
                  resp' = uproccessable
             ELSE LET found ==
                        all_unordered(
                          IF quiz_category.id = 0
                          THEN {q \in questions :
                                  q.id \notin SeqToSet(previous_questions)}
                          ELSE {q \in questions :
                                  /\ q.category = quiz_category.id
                                  /\ q.id \notin SeqToSet(previous_questions)},
                          ord)
                      available_questions == Len(found)
                  IN IF available_questions > 1
                     THEN \E k \in 0..(available_questions - 1) :
                            resp' = [status |-> 200, success |-> TRUE,
                                     question |-> format(found[k + 1])]
                     ELSE resp' = [status |-> 200, success |-> TRUE,
                                   question |-> JNull]

\* POST /quizzes
get_question_for_quiz(data, ord) ==
  /\ req' = [op |-> "get_question_for_quiz", data |-> data]
  /\ UNCHANGED <<questions, nextId, creates>>
  /\ IF ~data.json
     THEN resp' = uproccessable
     ELSE LET previous_questions ==
                IF "previous_questions" \in DOMAIN data.fields
                THEN data.fields["previous_questions"].v ELSE <<>>
              quiz_category == get(data, "quiz_category")
          IN IF quiz_category = JNull
             THEN \* None['id'] raises TypeError inside the try
                  resp' = uproccessable
             ELSE LET found ==
                        all_unordered(
                          IF quiz_category.id = 0
                          THEN {q \in questions :
                                  q.id \notin SeqToSet(previous_questions)}
                          ELSE {q \in questions :
                                  /\ q.category = quiz_category.id
                                  /\ q.id \notin SeqToSet(previous_questions)},
                          ord)
                      available_questions == Len(found)
                  IN IF available_questions > 0
                     THEN \E k \in 0..(available_questions - 1) :
                            resp' = [status |-> 200, success |-> TRUE,
                                     question |-> format(found[k + 1])]
                     ELSE resp' = [status |-> 200, success |-> TRUE,
                                   question |-> JNull]

(* ------------------------------- requests ------------------------------ *)
MaxId == MaxSeed + MaxCreates

PageArgs == {NoArg, BadArg} \cup {JInt(p) : p \in (-1)..MaxPage}

Texts == {<<>>, <<"a", "b">>}
Answers == {<<"a">>}
CategoryIds == {2}
Difficulties == {1}

Absent == [t |-> "absent"]
Opt(S) == {Absent, JNull} \cup S

\* the JSON object of the present keys
Obj(kv) == Body([k \in {k \in DOMAIN kv : kv[k] # Absent} |-> kv[k]])

\* bodies with all four fields, and the same with one field left out or null
CompleteFields ==
  [question : {JStr(s) : s \in Texts}, answer : {JStr(s) : s \in Answers},
   category : {JInt(n) : n \in CategoryIds},
   difficulty : {JInt(n) : n \in Difficulties}]

NewQuestionBodies ==
  {NoBody, Obj(<<>>)} \cup {Obj(kv) : kv \in CompleteFields} \cup
  {Obj([kv EXCEPT ![k] = v]) :
     kv \in {CHOOSE c \in CompleteFields : c.question.v # <<>>},
     k \in {"question", "answer", "category", "difficulty"},
     v \in {Absent, JNull}}

\* search terms of letters (a term's % and _ would act as wildcards)
SearchTerms == {<<>>, <<"a">>, <<"A", "b">>, <<"B", "a", "B">>, <<"c">>}

SearchBodies ==
  {NoBody} \cup {Obj([searchTerm |-> v]) : v \in Opt({JStr(s) : s \in SearchTerms})}

QuizCategory(id) == [t |-> "obj", id |-> id]
JList(s) == [t |-> "list", v |-> s]

\* lists of previous question ids a quiz client may send
PrevLists ==
  LET ids(S) == LET s == order_by_id(S) IN [i \in 1..Len(s) |-> s[i].id]
  IN {<<>>, <<2, 1>>, ids(questions), ids({q \in questions : q.category = 1})}

\* no body, a body without one of the two keys, and the well-formed bodies
QuizBodies ==
  {NoBody,
   Obj([previous_questions |-> JList(<<>>), quiz_category |-> Absent]),
   Obj([previous_questions |-> Absent, quiz_category |-> QuizCategory(1)])} \cup
  {Obj([previous_questions |-> JList(s), quiz_category |-> QuizCategory(id)]) :
     s \in PrevLists, id \in 0..3}

\* the sizes of the database before the first request: nearly empty ones
\* and ones around the page size
SeedSizes == (0..1) \cup ((MaxSeed - 2)..MaxSeed)

Init ==
  /\ \E n \in SeedSizes : questions = Seed(n) /\ nextId = n + 1
  /\ creates = 0
  /\ req = [op |-> "none"]
  /\ resp = [status |-> 0]

\* the deletes that took a row away so far
Deleted == nextId - 1 - Cardinality(questions)

GetQuestions == \E arg \in PageArgs : get_questions(arg)

DeleteQuestion ==
  \E question_id \in 1..(MaxId + 1) :
    /\ question_id \in Ids(questions) => Deleted < MaxDeletes
    /\ delete_question(question_id)

NewQuestion ==
  \E data \in NewQuestionBodies :
    /\ creates < MaxCreates
    /\ new_question(data)

QuestionsSearch ==
  \E data \in SearchBodies, ord \in Orders : questions_search(data, ord)

GetQuestionsByCategory ==
  \E category_id \in 1..3, arg \in PageArgs :
    get_questions_by_category(category_id, arg)

GetQuestionForQuiz ==
  \E data \in QuizBodies, ord \in Orders : get_question_for_quiz(data, ord)

\* the handlers that change the store, and the listing that shows it
NextStore ==
  \/ GetQuestions
  \/ DeleteQuestion
  \/ NewQuestion

\* the handlers that read the store, over the stores deletes leave
NextQuery ==
  \/ GetQuestions
  \/ DeleteQuestion
  \/ QuestionsSearch
  \/ GetQuestionsByCategory
  \/ GetQuestionForQuiz

Next == NextStore \/ NextQuery

Spec == Init /\ [][Next]_vars
SpecStore == Init /\ [][NextStore]_vars
SpecQuery == Init /\ [][NextQuery]_vars

(* ----------------------------- quiz session ---------------------------- *)
\* A quiz client over an unchanging store: it starts with no previous
\* questions, appends the id of each question it is served and asks again
\* with the same category, until it is served no question.
QuizRequest(cat, prev) ==
  Obj([previous_questions |-> JList(prev), quiz_category |-> QuizCategory(cat)])

QuizStart ==
  /\ req.op = "none"
  /\ \E cat \in 0..3, ord \in Orders :
       get_question_for_quiz(QuizRequest(cat, <<>>), ord)

QuizContinue ==
  /\ req.op = "get_question_for_quiz"
  /\ resp.question # JNull
  /\ \E ord \in Orders :
       get_question_for_quiz(
         QuizRequest(req.data.fields["quiz_category"].id,
                     Append(req.data.fields["previous_questions"].v,
                            resp.question.id)),
         ord)

InitQuiz ==
  /\ \E n \in 0..MaxQuizSeed : questions = Seed(n) /\ nextId = n + 1
  /\ creates = 0
  /\ req = [op |-> "none"]
  /\ resp = [status |-> 0]

NextQuiz == QuizStart \/ QuizContinue

\* the client keeps asking as long as it is served a question
FairSpecQuiz == InitQuiz /\ [][NextQuiz]_vars /\ WF_vars(NextQuiz)

(* -------------------------------- claims ------------------------------- *)
IsOp(name) == req.op = name

\* the questions whose text holds term as a substring, letter case aside
Contains(text, term) ==
  \E i \in 0..(Len(text) - Len(term)) :
    \A j \in 1..Len(term) : lower(text[i + j]) = lower(term[j])

\* C1: for a page >= 1, GET /questions returns at most 10 items, and the
\* item at position i of page p is the question that has exactly
\* (p-1)*10 + i - 1 questions of smaller id: the pages are consecutive
\* ranges of the id-ordered corpus and together hold each question once.
C1_PageIsContiguousRange ==
  (IsOp("get_questions") /\ req.page.t = "int" /\ req.page.v >= 1) =>
    LET p == req.page.v
        items == IF resp.status = 200 THEN resp.questions ELSE <<>>
        N == Cardinality(questions)
        first == (p - 1) * 10
    IN /\ Len(items) <= 10
       /\ Len(items) = Min(10, Max(N - first, 0))
       /\ \A i \in 1..Len(items) :
            \E q \in questions :
              /\ items[i] = format(q)
              /\ Cardinality({r \in questions : r.id < q.id}) = first + i - 1

C1_Witness ==
  /\ IsOp("get_questions") /\ req.page = JInt(2)
  /\ resp.status = 200 /\ Len(resp.questions) = 2

\* C2: for a non-empty search term, POST /questions/search returns exactly
\* the questions whose text contains the term case-insensitively, all of
\* them, so that the list is as long as total_questions says.
C2_SearchReturnsAllMatches ==
  (IsOp("questions_search") /\ req.data.json
     /\ truthy(get(req.data, "searchTerm"))) =>
    LET term == get(req.data, "searchTerm").v
        matches == {format(q) : q \in {r \in questions : Contains(r.question, term)}}
    IN /\ resp.status = 200 /\ resp.success
       /\ SeqToSet(resp.questions) = matches
       /\ Len(resp.questions) = Cardinality(matches)
       /\ Len(resp.questions) = resp.total_questions

\* C3: a search whose term is absent, null or empty is answered with the
\* 422 error.
C3_EmptyTermIs422 ==
  (IsOp("questions_search")
     /\ (req.data.json => ~truthy(get(req.data, "searchTerm")))) =>
    resp = uproccessable

\* C4: POST /quizzes with a quiz category answers success; the question is
\* null exactly when no question in scope is left outside the previous
\* ids, and otherwise it is one of those questions.
C4_QuizServesCandidate ==
  (IsOp("get_question_for_quiz") /\ req.data.json
     /\ "quiz_category" \in DOMAIN req.data.fields) =>
    LET cid == req.data.fields["quiz_category"].id
        prev == IF "previous_questions" \in DOMAIN req.data.fields
                THEN SeqToSet(req.data.fields["previous_questions"].v) ELSE {}
        candidates == {q \in questions :
                         (cid = 0 \/ q.category = cid) /\ q.id \notin prev}
    IN /\ resp.status = 200 /\ resp.success
       /\ (resp.question = JNull) <=> (candidates = {})
       /\ resp.question # JNull =>
            /\ \E q \in candidates : resp.question = format(q)
            /\ resp.question.id \notin prev
            /\ cid # 0 => resp.question.category = cid

C4_Witness ==
  /\ IsOp("get_question_for_quiz") /\ req.data.json
  /\ "quiz_category" \in DOMAIN req.data.fields
  /\ req.data.fields["quiz_category"].id = 1
  /\ "previous_questions" \in DOMAIN req.data.fields
  /\ req.data.fields["previous_questions"].v = <<2, 1>>
  /\ resp.question # JNull /\ resp.question.id = 3

\* C5: DELETE /questions/<id> for an id no stored question has answers
\* the 422 error and leaves the stored questions as they were.
C5_DeleteMissingIs422 ==
  [][(req'.op = "delete_question" /\ req'.question_id \notin Ids(questions)) =>
       (resp' = uproccessable /\ ~resp'.success /\ questions' = questions)]_vars

C5_Witness ==
  /\ IsOp("delete_question") /\ req.question_id \notin Ids(questions)
  /\ questions # {} /\ req.question_id < nextId
  /\ resp = uproccessable

\* C6: GET /questions answers 404 exactly when the slice of the requested
\* page is empty, as it is for a page beyond the data and for every page of
\* an empty corpus; otherwise it answers success with a non-empty list.
C6_EmptyPageIs404 ==
  IsOp("get_questions") =>
    LET p == page_arg(req.page)
        empty == paginate_questions(order_by_id(questions), p) = <<>>
    IN /\ (resp = not_found) <=> empty
       /\ ~empty => resp.status = 200 /\ resp.success /\ Len(resp.questions) > 0
       /\ (p >= 1 /\ Cardinality(questions) <= (p - 1) * 10) => resp = not_found
       /\ (p >= 1 /\ Cardinality(questions) > (p - 1) * 10) => resp.status = 200

C6_Witness ==
  /\ IsOp("get_questions") /\ req.page = JInt(2)
  /\ Cardinality(questions) = 10 /\ resp = not_found

\* the four fields POST /questions requires
Required == {"question", "answer", "category", "difficulty"}
Incomplete(data) ==
  \E k \in Required : k \notin DOMAIN data.fields \/ data.fields[k] = JNull

\* C7: POST /questions with a body in which one of the four fields is
\* missing or null answers 400 and inserts nothing.
C7_MissingFieldIs400 ==
  [][(req'.op = "new_question" /\ req'.data.json /\ Incomplete(req'.data)) =>
       (resp' = bad_request /\ questions' = questions /\ nextId' = nextId)]_vars

C7_Witness ==
  /\ IsOp("new_question") /\ req.data.json
  /\ DOMAIN req.data.fields = Required
  /\ req.data.fields["category"] = JNull
  /\ resp = bad_request

C9_EmptyCategoryPageIs422 ==
  IsOp("get_questions_by_category") =>
    LET inCat == {q \in questions : q.category = req.category_id}
        p == page_arg(req.page)
    IN /\ inCat = {} => resp = uproccessable
       /\ (p >= 1 /\ Cardinality(inCat) <= (p - 1) * 10) => resp = uproccessable
       /\ resp.status # 404
       /\ resp.status = 200 => Len(resp.questions) > 0

C9_Witness ==
  /\ IsOp("get_questions_by_category") /\ req.category_id = 3
  /\ questions # {} /\ resp = uproccessable

\* the questions a quiz of category cat draws from
InScope(cat) == {q \in questions : cat = 0 \/ q.category = cat}

\* C10: in a quiz session no question is served twice, the session ends
\* with the answer question = null after exactly as many questions as are in
\* scope, each served once, and every session reaches that end.
C10_SessionServesEachOnce ==
  /\ [](IsOp("get_question_for_quiz") =>
          LET prev == req.data.fields["previous_questions"].v
              scope == InScope(req.data.fields["quiz_category"].id)
          IN /\ \A i, j \in 1..Len(prev) : prev[i] = prev[j] => i = j
             /\ SeqToSet(prev) \subseteq Ids(scope)
             /\ resp.question # JNull => resp.question.id \notin SeqToSet(prev)
             /\ resp.question = JNull =>
                  /\ Len(prev) = Cardinality(scope)
                  /\ SeqToSet(prev) = Ids(scope))
  /\ <>(IsOp("get_question_for_quiz") /\ resp.question = JNull)

C10_Witness ==
  /\ IsOp("get_question_for_quiz") /\ resp.question = JNull
  /\ Len(req.data.fields["previous_questions"].v) = 3
  /\ req.data.fields["quiz_category"].id = 1
====
